---- MODULE Spec2Model ----
(***************************************************************************)
(* Model of extract.py: read a Markdown file, copy the lines of its first  *)
(* sql fenced block to 001_initial_schema.sql, print Done.                 *)
(*                                                                         *)
(* A line is a sequence of one-character strings, a file's text is a       *)
(* sequence of characters; BT stands for the backtick character, which a   *)
(* string literal here cannot hold.  The file system is that of a POSIX host *)
(* (the paths of the script are POSIX paths), where text-mode output       *)
(* leaves a line feed alone.                                               *)
(***************************************************************************)
EXTENDS Naturals, Sequences, FiniteSets, TLC

VARIABLES pc, src, dirDepth, obstacle, dirPerm, dest,
          lines, in_sql, sql, i, stdout, run, made

vars == <<pc, src, dirDepth, obstacle, dirPerm, dest,
          lines, in_sql, sql, i, stdout, run, made>>

fsvars == <<src, dirDepth, obstacle, dirPerm, dest>>

scanvars == <<lines, in_sql, sql, i>>

(***************************************************************************)
(* Bounds of the model.                                                    *)
(***************************************************************************)
MaxLines == 3

MaxCoreLines == 6

MaxRuns == 2

(***************************************************************************)
(* Program constants.                                                      *)
(***************************************************************************)
BT == "BACKTICK"

OpenMarker == <<BT, BT, BT, "s", "q", "l">>

CloseMarker == <<BT, BT, BT>>

DirChain == <<"home", "ace", "Projects", "Study-Sync",
              "studysync-backend", "scripts", "migrations">>

SrcDir == <<"home", "ace", "Projects", "Study-Sync">>

ChainLen == Len(DirChain)

SrcDepth == Len(SrcDir)

DoneText == "Done"

(***************************************************************************)
(* str.strip() with no argument: drop leading and trailing whitespace.     *)
(***************************************************************************)
Whitespace == {" ", "\t", "\n", "\r", "\f"}

RECURSIVE LStrip(_)
LStrip(s) ==
  IF s = <<>> THEN <<>>
  ELSE IF Head(s) \in Whitespace THEN LStrip(Tail(s)) ELSE s

RECURSIVE RStrip(_)
RStrip(s) ==
  IF s = <<>> THEN <<>>
  ELSE IF s[Len(s)] \in Whitespace THEN RStrip(SubSeq(s, 1, Len(s) - 1)) ELSE s

Strip(s) == RStrip(LStrip(s))

(***************************************************************************)
(* open(..., 'r') reads in universal-newlines mode: CR LF and a lone CR    *)
(* become LF; readlines() cuts after every LF and keeps it.                *)
(***************************************************************************)
RECURSIVE Translate(_)
Translate(t) ==
  IF t = <<>> THEN <<>>
  ELSE IF Head(t) = "\r"
       THEN IF Len(t) >= 2 /\ t[2] = "\n"
            THEN <<"\n">> \o Translate(SubSeq(t, 3, Len(t)))
            ELSE <<"\n">> \o Translate(Tail(t))
       ELSE <<Head(t)>> \o Translate(Tail(t))

RECURSIVE SplitLines(_, _)
SplitLines(t, cur) ==
  IF t = <<>> THEN (IF cur = <<>> THEN <<>> ELSE <<cur>>)
  ELSE IF Head(t) = "\n"
       THEN <<Append(cur, "\n")>> \o SplitLines(Tail(t), <<>>)
       ELSE SplitLines(Tail(t), Append(cur, Head(t)))

ReadLines(t) == SplitLines(Translate(t), <<>>)

(***************************************************************************)
(* f.writelines(sql): the strings one after the other, nothing in between. *)
(***************************************************************************)
RECURSIVE WriteLines(_)
WriteLines(ls) ==
  IF ls = <<>> THEN <<>> ELSE Head(ls) \o WriteLines(Tail(ls))

(***************************************************************************)
(* The source texts the model runs on: every sequence of at most MaxLines  *)
(* lines of Pool, and every sequence of at most MaxCoreLines lines of      *)
(* CorePool (long enough for two fenced blocks).                           *)
(***************************************************************************)
LOpen == OpenMarker \o <<"\n">>

LOpenWs == <<" ">> \o OpenMarker \o <<" ", "\r", "\n">>

LClose == CloseMarker \o <<"\n">>

LCloseWs == <<"\t">> \o CloseMarker \o <<"\n">>

LText == <<" ", "a", " ", "\n">>

LTagExtra == OpenMarker \o <<" ", "x", "\n">>

LCloseNoEol == CloseMarker

Pool == {LOpen, LOpenWs, LClose, LCloseWs, LText, LTagExtra, LCloseNoEol}

CorePool == {LOpen, LClose, LText}

SeqsUpTo(S, n) == UNION {[1..k -> S] : k \in 0..n}

ScanTexts ==
  {WriteLines(ls) : ls \in SeqsUpTo(Pool, MaxLines) \cup SeqsUpTo(CorePool, MaxCoreLines)}

FsTexts == {<<>>, WriteLines(<<LText, LOpen, LText, LClose, LText>>)}

OldContent == <<"o", "l", "d", "\n">>

NoFile == [kind |-> "absent", writable |-> FALSE, content |-> <<>>]

OldFile(w) == [kind |-> "file", writable |-> w, content |-> OldContent]

DirAtDest == [kind |-> "dir", writable |-> FALSE, content |-> <<>>]

(***************************************************************************)
(* The file system before the first run.  src is the Markdown file;        *)
(* dirDepth counts the leading components of DirChain that exist as        *)
(* directories; obstacle says that the next component exists as a regular  *)
(* file; dirPerm says that the deepest existing directory is writable;     *)
(* dest is what 001_initial_schema.sql is.  A source file that exists      *)
(* lies in SrcDir, so that much of the chain exists.  made counts the      *)
(* directories the script has created so far.                              *)
(***************************************************************************)
InitFsPlain ==
  /\ src \in {[kind |-> "file", text |-> t] : t \in ScanTexts}
  /\ obstacle = FALSE
  /\ dirPerm = TRUE
  /\ \/ dirDepth = SrcDepth /\ dest = NoFile
     \/ dirDepth = ChainLen /\ dest \in {NoFile, OldFile(TRUE)}

InitFsRich ==
  /\ src \in {[kind |-> "absent", text |-> <<>>]}
             \cup {[kind |-> k, text |-> t] : k \in {"noperm", "file"}, t \in FsTexts}
  /\ dirDepth \in 0..ChainLen
  /\ src.kind # "absent" => dirDepth >= SrcDepth
  /\ obstacle \in BOOLEAN
  /\ obstacle => dirDepth < ChainLen
  /\ dirPerm \in BOOLEAN
  /\ dest \in {NoFile, OldFile(TRUE), OldFile(FALSE), DirAtDest}
  /\ dest # NoFile => dirDepth = ChainLen

Init ==
  /\ pc = "read"
  /\ run = 1
  /\ lines = <<>>
  /\ in_sql = FALSE
  /\ sql = <<>>
  /\ i = 1
  /\ stdout = <<>>
  /\ made = 0
  /\ (InitFsPlain \/ InitFsRich)

(***************************************************************************)
(* with open(...) as f: lines = f.readlines(); in_sql = False; sql = []    *)
(***************************************************************************)
ReadOK ==
  /\ pc = "read"
  /\ src.kind = "file"
  /\ lines' = ReadLines(src.text)
  /\ in_sql' = FALSE
  /\ sql' = <<>>
  /\ i' = 1
  /\ pc' = "scan"
  /\ UNCHANGED <<fsvars, stdout, run, made>>

ReadFailSwallowed ==
  /\ pc = "read"
  /\ src.kind # "file"
  /\ lines' = <<>>
  /\ in_sql' = FALSE
  /\ sql' = <<>>
  /\ i' = 1
  /\ pc' = "scan"
  /\ UNCHANGED <<fsvars, stdout, run, made>>

(* open() raises FileNotFoundError or PermissionError; nothing catches it. *)
ReadFail ==
  /\ pc = "read"
  /\ src.kind # "file"
  /\ pc' = "failed"
  /\ UNCHANGED <<fsvars, scanvars, stdout, run, made>>

(***************************************************************************)
(* for line in lines: one action per branch of the loop body; i is the     *)
(* position of the line the iterator yields next.                          *)
(***************************************************************************)
IsOpening(line) == Strip(line) = OpenMarker

IsBreakAnywhere(line, inside) == Strip(line) = CloseMarker

IsBreak(line, inside) == inside /\ Strip(line) = CloseMarker

AtLine == pc = "scan" /\ i <= Len(lines)

ScanOpen ==
  /\ AtLine
  /\ IsOpening(lines[i])
  /\ in_sql' = TRUE
  /\ i' = i + 1
  /\ UNCHANGED <<pc, fsvars, lines, sql, stdout, run, made>>

ScanBreakContinue ==
  /\ AtLine
  /\ ~IsOpening(lines[i])
  /\ IsBreak(lines[i], in_sql)
  /\ in_sql' = FALSE
  /\ i' = i + 1
  /\ UNCHANGED <<pc, fsvars, lines, sql, stdout, run, made>>

ScanBreak ==
  /\ AtLine
  /\ ~IsOpening(lines[i])
  /\ IsBreak(lines[i], in_sql)
  /\ pc' = "makedirs"
  /\ UNCHANGED <<fsvars, scanvars, stdout, run, made>>

ScanAppendStripped ==
  /\ AtLine
  /\ ~IsOpening(lines[i])
  /\ ~IsBreak(lines[i], in_sql)
  /\ in_sql
  /\ sql' = Append(sql, Append(Strip(lines[i]), "\n"))
  /\ i' = i + 1
  /\ UNCHANGED <<pc, fsvars, lines, in_sql, stdout, run, made>>

ScanAppend ==
  /\ AtLine
  /\ ~IsOpening(lines[i])
  /\ ~IsBreak(lines[i], in_sql)
  /\ in_sql
  /\ sql' = Append(sql, lines[i])
  /\ i' = i + 1
  /\ UNCHANGED <<pc, fsvars, lines, in_sql, stdout, run, made>>

ScanSkip ==
  /\ AtLine
  /\ ~IsOpening(lines[i])
  /\ ~IsBreak(lines[i], in_sql)
  /\ ~in_sql
  /\ i' = i + 1
  /\ UNCHANGED <<pc, fsvars, lines, in_sql, sql, stdout, run, made>>

ScanEnd ==
  /\ pc = "scan"
  /\ i > Len(lines)
  /\ pc' = "makedirs"
  /\ UNCHANGED <<fsvars, scanvars, stdout, run, made>>

(***************************************************************************)
(* os.makedirs(dir, exist_ok=True): nothing to do when the whole chain     *)
(* exists; otherwise the missing components are created one below the      *)
(* other, which needs a writable parent and no regular file in the way.    *)
(***************************************************************************)
CanMakedirsNoExistOk == dirDepth < ChainLen /\ ~obstacle /\ dirPerm

CanMakedirs == dirDepth = ChainLen \/ (~obstacle /\ dirPerm)

MakedirsOK ==
  /\ pc = "makedirs"
  /\ CanMakedirs
  /\ dirDepth' = ChainLen
  /\ dirPerm' = IF dirDepth < ChainLen THEN TRUE ELSE dirPerm
  /\ made' = made + (ChainLen - dirDepth)
  /\ pc' = "write"
  /\ UNCHANGED <<src, obstacle, dest, scanvars, stdout, run>>

MakedirsFail ==
  /\ pc = "makedirs"
  /\ ~CanMakedirs
  /\ pc' = "failed"
  /\ UNCHANGED <<fsvars, scanvars, stdout, run, made>>

(***************************************************************************)
(* with open(dest, 'w') as f: f.writelines(sql).  Mode 'w' creates the     *)
(* file or truncates it; it needs a writable file, or a writable directory *)
(* to create one in.                                                       *)
(***************************************************************************)
CanWrite ==
  \/ dest.kind = "file" /\ dest.writable
  \/ dest.kind = "absent" /\ dirPerm

WriteOKAppend ==
  /\ pc = "write"
  /\ CanWrite
  /\ dest' = [kind |-> "file", writable |-> TRUE,
              content |-> dest.content \o WriteLines(sql)]
  /\ pc' = "print"
  /\ UNCHANGED <<src, dirDepth, obstacle, dirPerm, scanvars, stdout, run, made>>

WriteOKSkipEmpty ==
  /\ pc = "write"
  /\ CanWrite
  /\ dest' = IF sql = <<>> THEN dest
             ELSE [kind |-> "file", writable |-> TRUE, content |-> WriteLines(sql)]
  /\ pc' = "print"
  /\ UNCHANGED <<src, dirDepth, obstacle, dirPerm, scanvars, stdout, run, made>>

WriteOK ==
  /\ pc = "write"
  /\ CanWrite
  /\ dest' = [kind |-> "file", writable |-> TRUE, content |-> WriteLines(sql)]
  /\ pc' = "print"
  /\ UNCHANGED <<src, dirDepth, obstacle, dirPerm, scanvars, stdout, run, made>>

WriteFailStillPrints ==
  /\ pc = "write"
  /\ ~CanWrite
  /\ pc' = "print"
  /\ UNCHANGED <<fsvars, scanvars, stdout, run, made>>

WriteFail ==
  /\ pc = "write"
  /\ ~CanWrite
  /\ pc' = "failed"
  /\ UNCHANGED <<fsvars, scanvars, stdout, run, made>>

(* print("Done") *)
PrintDone ==
  /\ pc = "print"
  /\ stdout' = Append(stdout, DoneText)
  /\ pc' = "done"
  /\ UNCHANGED <<fsvars, scanvars, run, made>>

(***************************************************************************)
(* The script is started again after a run that completed: a new process,  *)
(* with fresh locals and a fresh standard output, on the file system the   *)
(* previous run left.                                                      *)
(***************************************************************************)
Rerun ==
  /\ pc = "done"
  /\ run < MaxRuns
  /\ run' = run + 1
  /\ pc' = "read"
  /\ lines' = <<>>
  /\ in_sql' = FALSE
  /\ sql' = <<>>
  /\ i' = 1
  /\ stdout' = <<>>
  /\ UNCHANGED <<fsvars, made>>

Next ==
  \/ ReadOK
  \/ ReadFail
  \/ ScanOpen
  \/ ScanBreak
  \/ ScanAppend
  \/ ScanSkip
  \/ ScanEnd
  \/ MakedirsOK
  \/ MakedirsFail
  \/ WriteOK
  \/ WriteFail
  \/ PrintDone
  \/ Rerun

Spec == Init /\ [][Next]_vars

TypeOK ==
  /\ pc \in {"read", "scan", "makedirs", "write", "print", "done", "failed"}
  /\ run \in 1..MaxRuns
  /\ in_sql \in BOOLEAN
  /\ i \in 1..(Len(lines) + 1)
  /\ dirDepth \in 0..ChainLen
  /\ Len(sql) <= Len(lines)
  /\ made \in 0..ChainLen

(***************************************************************************)
(* Vocabulary of the properties, read off a line sequence alone.           *)
(***************************************************************************)
OpensAt(ls, k) == Strip(ls[k]) = OpenMarker

ClosesAt(ls, k) == Strip(ls[k]) = CloseMarker

HasOpen(ls) == \E k \in 1..Len(ls) : OpensAt(ls, k)

FirstOpen(ls) ==
  CHOOSE k \in 1..Len(ls) : OpensAt(ls, k) /\ \A j \in 1..(k - 1) : ~OpensAt(ls, j)

ClosedAfterOpen(ls) ==
  HasOpen(ls) /\ \E c \in (FirstOpen(ls) + 1)..Len(ls) : ClosesAt(ls, c)

FirstClose(ls) ==
  CHOOSE c \in (FirstOpen(ls) + 1)..Len(ls) :
    ClosesAt(ls, c) /\ \A j \in (FirstOpen(ls) + 1)..(c - 1) : ~ClosesAt(ls, j)

Interior(ls) == SubSeq(ls, FirstOpen(ls) + 1, FirstClose(ls) - 1)

OneRegion(ls) ==
  /\ Cardinality({k \in 1..Len(ls) : OpensAt(ls, k)}) = 1
  /\ ClosedAfterOpen(ls)

SecondPair(ls) ==
  /\ ClosedAfterOpen(ls)
  /\ \E o \in (FirstClose(ls) + 1)..Len(ls) : \E c \in (o + 2)..Len(ls) :
       /\ OpensAt(ls, o)
       /\ ClosesAt(ls, c)
       /\ \A k \in (o + 1)..(c - 1) : ~OpensAt(ls, k) /\ ~ClosesAt(ls, k)

Written == pc \in {"print", "done"}

DirBlocked == dirDepth < ChainLen /\ (obstacle \/ ~dirPerm)

WriteBlocked ==
  \/ dest.kind = "dir"
  \/ dest.kind = "file" /\ ~dest.writable
  \/ dest.kind = "absent" /\ ~dirPerm

C2_FirstBlockOnly ==
  [][ /\ (pc = "scan" /\ ClosedAfterOpen(lines)) =>
           /\ i <= FirstClose(lines)
           /\ (sql' # sql =>
                 /\ sql' = Append(sql, lines[i])
                 /\ FirstOpen(lines) < i
                 /\ i < FirstClose(lines))
           /\ (pc' # "scan" => i = FirstClose(lines) /\ pc' = "makedirs")
      /\ (pc = "write" /\ pc' = "print") => dest'.content = WriteLines(sql)
      /\ pc \in {"makedirs", "write", "print"} => UNCHANGED <<sql, i>>
    ]_vars

C2_Witness ==
  /\ pc = "done"
  /\ SecondPair(lines)
  /\ i = FirstClose(lines)
  /\ dest.content = WriteLines(sql)
  /\ \A k \in 1..Len(sql) : \E j \in (FirstOpen(lines) + 1)..(FirstClose(lines) - 1) :
        sql[k] = lines[j]

(***************************************************************************)
(* C3 (P3, unterminated block): when the lines read hold an opening marker *)
(* and no closing marker after the first one, the output is every line     *)
(* after the first opening marker, to the end of the input.                *)
(***************************************************************************)
C3_Unterminated ==
  (Written /\ HasOpen(lines) /\ ~ClosedAfterOpen(lines)) =>
    /\ sql = SubSeq(lines, FirstOpen(lines) + 1, Len(lines))
    /\ dest.content = WriteLines(SubSeq(lines, FirstOpen(lines) + 1, Len(lines)))

(***************************************************************************)
(* C4 (P2, no marker): when the source is readable and the lines read hold *)
(* no opening marker (bare closing fences or nothing at all included), the *)
(* buffer is empty throughout, a failed run has a file-system cause, and   *)
(* after the write the destination is a file with empty content.           *)
(***************************************************************************)
C4_NoMarker ==
  (src.kind = "file" /\ ~HasOpen(lines)) =>
    /\ sql = <<>>
    /\ Written => (dest.kind = "file" /\ dest.content = <<>>)
    /\ pc = "failed" => (DirBlocked \/ WriteBlocked)

C4_Witness ==
  /\ pc = "done"
  /\ ~HasOpen(lines)
  /\ \E k \in 1..Len(lines) : ClosesAt(lines, k)
  /\ sql = <<>>
  /\ dest.kind = "file"
  /\ dest.content = <<>>

(***************************************************************************)
(* C5 (unreadable source): while the source is missing or unreadable the   *)
(* run can only go from the read step to failure: no step creates a        *)
(* directory, touches the destination or prints, and nothing is printed.   *)
(***************************************************************************)
C5_SourceUnreadable ==
  [][ src.kind # "file" =>
        /\ pc = "read"
        /\ pc' = "failed"
        /\ stdout = <<>>
        /\ UNCHANGED <<dirDepth, obstacle, dirPerm, dest, made, stdout>>
    ]_vars

C5_Witness ==
  /\ pc = "failed"
  /\ src.kind = "absent"
  /\ dirDepth < ChainLen
  /\ dest = NoFile
  /\ made = 0
  /\ stdout = <<>>

(***************************************************************************)
(* C6 (P5, idempotence): every successful write leaves a file whose        *)
(* content is the concatenation of the buffer alone, whatever was there    *)
(* before; and the write of a second or later run on the unchanged source  *)
(* leaves the content the previous run left.                               *)
(***************************************************************************)
C6_Idempotent ==
  [][ (pc = "write" /\ pc' = "print") =>
        /\ dest'.kind = "file"
        /\ dest'.content = WriteLines(sql)
        /\ run >= 2 => dest'.content = dest.content
    ]_vars

C6_Witness ==
  /\ pc = "done"
  /\ run = 2
  /\ sql # <<>>
  /\ dest.content = WriteLines(sql)

(***************************************************************************)
(* C7 (P6, directory creation): the ensure-directory step succeeds and     *)
(* changes nothing when the whole chain exists; when part of the chain is  *)
(* missing and can be created (writable parent, no file in the way) it     *)
(* creates the rest and the write that follows is not blocked; the write   *)
(* only ever runs with the whole chain in place, and succeeds when not     *)
(* blocked; a run started after a completed run never fails.               *)
(***************************************************************************)
C7_DirCreation ==
  [][ /\ (pc = "makedirs" /\ dirDepth = ChainLen) =>
           (pc' = "write" /\ UNCHANGED <<fsvars, made>>)
      /\ (pc = "makedirs" /\ dirDepth < ChainLen /\ ~DirBlocked) =>
           /\ pc' = "write"
           /\ dirDepth' = ChainLen
           /\ made' = made + (ChainLen - dirDepth)
           /\ ~WriteBlocked'
      /\ pc = "write" => dirDepth = ChainLen
      /\ (pc = "write" /\ ~WriteBlocked) => (pc' = "print" /\ dest'.kind = "file")
      /\ run >= 2 => pc' # "failed"
    ]_vars

C7_Witness ==
  /\ pc = "done"
  /\ run = 2
  /\ made = ChainLen - SrcDepth
  /\ dirDepth = ChainLen
  /\ dest.kind = "file"

(***************************************************************************)
(* C8 (opening marker inside the block): once in_sql is true, every        *)
(* scanned line whose stripped content is not the closing marker is        *)
(* appended to the buffer unmodified, an opening-marker line included.     *)
(***************************************************************************)
C8_OpenInsideCaptured ==
  [][ (pc = "scan" /\ i <= Len(lines) /\ in_sql /\ ~ClosesAt(lines, i)) =>
        sql' = Append(sql, lines[i])
    ]_vars

(***************************************************************************)
(* C9 (scan state machine): the scan starts outside; in_sql changes only   *)
(* from false to true and only on an opening-marker line; the loop ends    *)
(* before the last line only when inside and on a closing-marker line; a   *)
(* closing-marker line met outside is passed over with in_sql and the      *)
(* buffer unchanged and the scan going on.                                 *)
(***************************************************************************)
C9_StateMachine ==
  [][ /\ (pc = "read" /\ pc' = "scan") => (~in_sql' /\ sql' = <<>>)
      /\ pc = "scan" =>
           /\ (in_sql' # in_sql =>
                 ~in_sql /\ in_sql' /\ i <= Len(lines) /\ OpensAt(lines, i))
           /\ ((pc' # "scan" /\ i <= Len(lines)) =>
                 in_sql /\ ClosesAt(lines, i))
           /\ ((~in_sql /\ i <= Len(lines) /\ ClosesAt(lines, i)) =>
                 pc' = "scan" /\ i' = i + 1 /\ UNCHANGED <<in_sql, sql>>)
      /\ pc \in {"makedirs", "write", "print"} => UNCHANGED in_sql
    ]_vars

C9_Witness ==
  /\ pc = "done"
  /\ Len(lines) >= 1
  /\ ClosesAt(lines, 1)
  /\ in_sql
  /\ sql # <<>>
  /\ dest.content = WriteLines(sql)

(***************************************************************************)
(* C10 (order of the steps): the control point moves read, scan, ensure    *)
(* directory, write, print, done (or to failure from read, ensure          *)
(* directory or write); directories and the destination change only in the *)
(* ensure-directory and write steps, after the source was read whole;      *)
(* Done is printed at most once per run, only after the write put the      *)
(* buffer into the destination; a failed run has printed nothing.          *)
(***************************************************************************)
StepOrder ==
  {<<"read", "scan">>, <<"read", "failed">>, <<"scan", "scan">>,
   <<"scan", "makedirs">>, <<"makedirs", "write">>, <<"makedirs", "failed">>,
   <<"write", "print">>, <<"write", "failed">>, <<"print", "done">>,
   <<"done", "read">>}

C10_StepOrder ==
  [][ /\ <<pc, pc'>> \in StepOrder
      /\ (<<dirDepth, dirPerm, made>>' # <<dirDepth, dirPerm, made>>) =>
           (pc = "makedirs" /\ lines = ReadLines(src.text))
      /\ dest' # dest => (pc = "write" /\ lines = ReadLines(src.text))
      /\ stdout' # <<>> =>
           /\ stdout' = <<DoneText>>
           /\ pc' = "done"
           /\ dest'.kind = "file"
           /\ dest'.content = WriteLines(sql')
      /\ pc' = "failed" => stdout' = <<>>
    ]_vars

C10_Witness ==
  /\ pc = "failed"
  /\ src.kind = "file"
  /\ lines = ReadLines(src.text)
  /\ sql # <<>>
  /\ dirDepth = ChainLen
  /\ WriteBlocked
  /\ stdout = <<>>

====
